---- MODULE Spec2Model ----
(***************************************************************************)
(* Call Campaign Orchestrator of the AI ordering assistant backend:        *)
(* services/phone_call_executor.py over the Conversation Store             *)
(* (services/firestore_service.py) and the Call Provider                   *)
(* (services/phone_agent.py).  One task; the store holds its messages      *)
(* newest first, as get_task_messages returns them.                        *)
(***************************************************************************)
EXTENDS Integers, Sequences, FiniteSets, TLC

\* ------------------------------------------------------------- bounds
\* Longest vendor candidate list of the initial current message.
MaxCands == 2
\* Number of execute_phone_calls_for_selected_options invocations on the task.
MaxCampaigns == 2

\* Longest free-text payload given to fetch_selected_options on its own.
MaxStrLen == 4

\* ------------------------------------------------- program constants
\* max_iterations of _poll_call_results_async.
max_iterations == 20

\* ------------------------------------------------------------- values
\* A dict key that is not present; `selected` is "True", "False" or Absent.
\* call_id, recording_url and transcript are numbers: 0 stands for a missing
\* key, c >= 1 for the call the provider numbered c and for the recording /
\* transcript the provider holds for c.
Absent == "absent"

Names == {"A", "B"}

Phones == <<"555-1", "555-2", "555-3", "555-4">>

\* Characters of a free-text payload.
Digits == {"1"}
Letters == {"a"}
Whitespace == {" ", "\n"}

RECURSIVE SeqsUpTo(_, _)
\* All sequences over S of length 0..n.
SeqsUpTo(S, n) ==
    IF n = 0 THEN {<<>>}
    ELSE LET shorter == SeqsUpTo(S, n - 1)
         IN shorter \cup {Append(s, x) : s \in {t \in shorter : Len(t) = n - 1}, x \in S}

\* A vendor candidate as the recommendation engine leaves it in a message:
\* no status, no call data; the user has set `selected` externally.
NewCandidate(name, phone, selected) ==
    [name |-> name, phone |-> phone, selected |-> selected, status |-> Absent,
     call_id |-> 0, recording_url |-> 0, transcript |-> 0]

\* The candidate lists a current message can start with: the i-th candidate
\* has the i-th phone number, any name (names may repeat) and any selection.
\* Names are interchangeable, so the first candidate is called "A".
InitLists ==
    {l \in SeqsUpTo({NewCandidate(n, Absent, s) : n \in Names, s \in {"True", "False"}}, MaxCands) :
        l # <<>> => l[1].name = "A"}

WithPhones(l) == [i \in 1..Len(l) |-> [l[i] EXCEPT !.phone = Phones[i]]]

ListMessage(id, l) == [id |-> id, kind |-> "list", list |-> l, str |-> <<>>]

StrMessage(id, s) == [id |-> id, kind |-> "str", list |-> <<>>, str |-> s]

\* Free-text payloads of a current message: no enumerated line ("a-"), one
\* enumerated line ("1. a"), and a text with a blank line ("a-\n\na-").
InitStrings ==
    { <<"a", "-">>,
      <<"1", ".", " ", "a">>,
      <<"a", "-", "\n", "\n", "a", "-">> }

\* The stores a campaign can find: no message, one free-text message, or one
\* candidate-list message.
InitStores ==
    {<<>>}
    \cup {<<StrMessage(1, s)>> : s \in InitStrings}
    \cup {<<ListMessage(1, WithPhones(l))>> : l \in InitLists}

\* A stored candidate at one point of its life: "new" as the engine wrote it,
\* "loading" after the initial write of a campaign, "placed" with the call_id
\* of its call c, "completed" with the results of c.
StoredCandidate(name, phone, selected, stage, c) ==
    [name |-> name, phone |-> phone, selected |-> selected,
     status |-> CASE stage = "new" -> Absent
                  [] stage \in {"loading", "placed"} -> "loading"
                  [] OTHER -> "completed",
     call_id |-> IF stage \in {"placed", "completed"} THEN c ELSE 0,
     recording_url |-> IF stage = "completed" THEN c ELSE 0,
     transcript |-> IF stage = "completed" THEN c ELSE 0]

Stages == {"new", "loading", "placed", "completed"}

\* The candidate lists a message can hold at any time: the i-th candidate has
\* the i-th phone number and, if any, call i; `selected` is true, false or
\* unset.
StoredLists ==
    LET shapes == {l \in SeqsUpTo([name : Names, selected : {"True", "False", Absent},
                                    stage : Stages], MaxCands) :
                      l # <<>> => l[1].name = "A"}
    IN {[i \in 1..Len(l) |->
            StoredCandidate(l[i].name, Phones[i], l[i].selected, l[i].stage, i)] : l \in shapes}

\* The characters of the free-text payloads below.
Chars == Digits \cup Letters \cup Whitespace \cup {".", "-"}

\* An older candidate-list message.
OlderListMessage ==
    <<ListMessage(1, <<StoredCandidate("B", Phones[MaxCands + 1], "True", "new", 0)>>)>>

\* The older messages of a task, newest first: none, a candidate list with a
\* selected candidate, or a text with an enumerated line.
OlderMessages ==
    { <<>>, OlderListMessage, <<StrMessage(1, <<"1", ".", " ", "a">>)>> }

\* The stores fetch_selected_options can be called on: no message, or a
\* newest message holding any candidate list or any text, over older messages.
FetchStores ==
    {<<>>}
    \cup {<<ListMessage(Len(old) + 1, l)>> \o old : l \in StoredLists, old \in OlderMessages}
    \cup {<<StrMessage(Len(old) + 1, t)>> \o old :
              t \in SeqsUpTo(Chars, MaxStrLen), old \in OlderMessages}

\* ------------------------------------------------- string operations
RECURSIVE SplitLines(_)
\* str.split("\n").
SplitLines(s) ==
    IF \A i \in 1..Len(s) : s[i] # "\n" THEN <<s>>
    ELSE LET i == CHOOSE k \in 1..Len(s) : s[k] = "\n" /\ \A j \in 1..(k - 1) : s[j] # "\n"
         IN <<SubSeq(s, 1, i - 1)>> \o SplitLines(SubSeq(s, i + 1, Len(s)))

RECURSIVE LStrip(_)
LStrip(s) == IF s # <<>> /\ Head(s) \in Whitespace THEN LStrip(Tail(s)) ELSE s

RECURSIVE RStrip(_)
RStrip(s) ==
    IF s # <<>> /\ s[Len(s)] \in Whitespace THEN RStrip(SubSeq(s, 1, Len(s) - 1)) ELSE s

\* str.strip().
Strip(s) == RStrip(LStrip(s))

\* The test of the fallback heuristic on one stripped line:
\*   line and (line[0].isdigit() and line[1] in [...])
\*        or (line[0].isalpha() and line[1] in [...])
\* "raise" is the IndexError of line[0] on an empty line (the `or` branch is
\* evaluated when `line` is falsy) and of line[1] on a one-character line.
LooksEnumerated(line) ==
    IF line = <<>> THEN "raise"
    ELSE IF line[1] \in Digits \cup Letters
         THEN IF Len(line) < 2 THEN "raise"
              ELSE IF line[2] \in {".", ")", " "} THEN "yes" ELSE "no"
         ELSE "no"

\* ------------------------------------------------ Conversation Store
\* Python truthiness of a message id / call id / url / transcript.
Truthy(x) == x # 0

\* restaurant is a dict with a "name" key.
HasName(r) == r.name # Absent

\* Mutant: the updated entries are added to the stored list, not put in its
\* place.
UpdateDocumentExtend(msgs, id, list) ==
    [i \in 1..Len(msgs) |->
        IF msgs[i].id = id
        THEN [msgs[i] EXCEPT !.kind = "list", !.list = msgs[i].list \o list, !.str = <<>>]
        ELSE msgs[i]]

\* Mutant: every update creates a new message document.
UpdateDocumentAppend(msgs, id, list) == <<ListMessage(Len(msgs) + 1, list)>> \o msgs

\* doc_ref.update({"text": list, ...}) on document `id` of the task.
UpdateDocument(msgs, id, list) ==
    [i \in 1..Len(msgs) |->
        IF msgs[i].id = id THEN [msgs[i] EXCEPT !.kind = "list", !.list = list, !.str = <<>>]
        ELSE msgs[i]]

\* firestore_service.write_task_message(text=list, ...): a new document,
\* the newest of the task.
WriteTaskMessage(msgs, list) == <<ListMessage(Len(msgs) + 1, list)>> \o msgs

\* ----------------------------------------------- fetch_selected_options
DictOption(r) ==
    [isdict |-> TRUE, name |-> r.name,
     phone |-> IF r.phone = Absent THEN "No phone" ELSE r.phone,
     status |-> IF r.status = Absent THEN "unknown" ELSE r.status,
     call_id |-> r.call_id, recording_url |-> r.recording_url,
     transcript |-> r.transcript, line |-> <<>>]

StrOption(line) ==
    [isdict |-> FALSE, name |-> Absent, phone |-> Absent, status |-> Absent,
     call_id |-> 0, recording_url |-> 0, transcript |-> 0, line |-> line]

\* Mutant: an unset `selected` counts as selected.
IsSelectedOrUnset(r) == HasName(r) /\ r.selected # "False"

\* Lines 84-86: a dict with a name whose `selected` is True.
IsSelected(r) == HasName(r) /\ r.selected = "True"

MapSeq(s, Op(_)) == [i \in 1..Len(s) |-> Op(s[i])]

Reverse(s) == [i \in 1..Len(s) |-> s[Len(s) + 1 - i]]

\* One part of the conversation text: a candidate list is rendered as the
\* enumerated "Restaurant options:" block of name and phone, any other payload
\* as its text.
ConversationPart(msg) ==
    IF msg.kind = "list"
    THEN [kind |-> "list",
          items |-> MapSeq(msg.list, LAMBDA r :
                       <<IF r.name = Absent THEN "Unknown" ELSE r.name,
                         IF r.phone = Absent THEN "No phone" ELSE r.phone>>),
          str |-> <<>>]
    ELSE [kind |-> "str", items |-> <<>>, str |-> msg.str]

\* conversation_text: the parts of all messages, oldest first; <<>> is "".
ConversationText(msgs) == MapSeq(Reverse(msgs), ConversationPart)

\* Mutant: a task without messages is an error, as it is for process_order.
NoMessagesRaises == [raised |-> TRUE, options |-> <<>>, text |-> <<>>]

\* Lines 33-35: `if not messages: return [], ""`.
NoMessagesResult == [raised |-> FALSE, options |-> <<>>, text |-> <<>>]

\* The options of the newest message (messages[0]); raised: an exception
\* leaves the function.
FetchSelectedOptions(msgs) ==
    IF msgs = <<>> THEN NoMessagesResult
    ELSE LET last_message == msgs[1] IN
         IF last_message.kind = "list"
         THEN [raised |-> FALSE,
               options |-> MapSeq(SelectSeq(last_message.list, IsSelected), DictOption),
               text |-> ConversationText(msgs)]
         ELSE LET lines == MapSeq(SplitLines(last_message.str), Strip) IN
              [raised |-> \E i \in 1..Len(lines) : LooksEnumerated(lines[i]) = "raise",
               options |-> MapSeq(SelectSeq(lines, LAMBDA l : LooksEnumerated(l) = "yes"),
                                  StrOption),
               text |-> ConversationText(msgs)]

\* ------------------------------------- _update_selected_options_status
\* option["name"] on a str option is a TypeError: it is reached for a named
\* restaurant when no dict option before it in `options` has that name.
StatusLoopRaises(r, options) ==
    \E j \in 1..Len(options) :
        /\ ~options[j].isdict
        /\ \A k \in 1..(j - 1) : options[k].name # r.name

NameInOptions(r, options) ==
    \E j \in 1..Len(options) : options[j].isdict /\ options[j].name = r.name

\* Mutant: the name test is missing.
SetStatusAll(r, options, status) == [r EXCEPT !.status = status]

\* Mutant: the matching restaurant is written back with its old status.
SetStatusKeep(r, options, status) == r

\* Mutant: the matching restaurant is reset to "unknown" instead of `status`.
SetStatusUnknown(r, options, status) ==
    IF NameInOptions(r, options) THEN [r EXCEPT !.status = "unknown"] ELSE r

SetStatus(r, options, status) ==
    IF NameInOptions(r, options) THEN [r EXCEPT !.status = status] ELSE r

\* [raised, wrote, msgs]: wrote tells whether doc_ref.update was called.
UpdateSelectedOptionsStatus(msgs, options, status) ==
    IF msgs = <<>> THEN [raised |-> FALSE, wrote |-> FALSE, msgs |-> msgs]
    ELSE LET last_message == msgs[1]
             named == SelectSeq(last_message.list, HasName)
             updated_restaurants == MapSeq(named, LAMBDA r : SetStatus(r, options, status))
         IN IF last_message.kind # "list"
            THEN [raised |-> FALSE, wrote |-> FALSE, msgs |-> msgs]
            ELSE IF \E i \in 1..Len(named) : StatusLoopRaises(named[i], options)
            THEN [raised |-> TRUE, wrote |-> FALSE, msgs |-> msgs]
            ELSE IF Truthy(last_message.id)
            THEN [raised |-> FALSE, wrote |-> TRUE,
                  msgs |-> UpdateDocument(msgs, last_message.id, updated_restaurants)]
            ELSE [raised |-> FALSE, wrote |-> FALSE, msgs |-> msgs]

\* ------------------------- _update_firestore_message_with_call_results
\* A CallResult; call_result is 0 for None and c for {"response": {"call_id": c}}.
SuccessResult(option, c) ==
    [restaurant_name |-> option.name, phone |-> option.phone, call_result |-> c,
     status |-> "success", error |-> Absent]

\* Mutant: the except clause records no phone.
FailedResultNoPhone(option) ==
    [restaurant_name |-> option.name, phone |-> Absent, call_result |-> 0,
     status |-> "failed", error |-> "error"]

FailedResult(option) ==
    [restaurant_name |-> option.name, phone |-> option.phone, call_result |-> 0,
     status |-> "failed", error |-> "error"]

\* result.get("call_result", {}) is None for a failed result (the key is
\* present), and None.get("response", {}) raises AttributeError.
CallResultsMapRaises(call_results) ==
    \E i \in 1..Len(call_results) :
        /\ call_results[i].restaurant_name # Absent
        /\ call_results[i].status = "failed"

InCallResultsMap(name, call_results) ==
    \E i \in 1..Len(call_results) :
        call_results[i].restaurant_name = name /\ Truthy(call_results[i].call_result)

\* call_results_map[name]: the last result of that name wins.
CallResultsMap(name, call_results) ==
    LET hits == {i \in 1..Len(call_results) :
                    call_results[i].restaurant_name = name
                    /\ Truthy(call_results[i].call_result)}
        last == CHOOSE i \in hits : \A j \in hits : j <= i
    IN call_results[last].call_result

SetCallId(r, call_results) ==
    IF InCallResultsMap(r.name, call_results)
    THEN [r EXCEPT !.call_id = CallResultsMap(r.name, call_results), !.status = "loading"]
    ELSE r

UpdateFirestoreMessageWithCallResults(msgs, call_results) ==
    IF msgs = <<>> THEN [raised |-> FALSE, wrote |-> FALSE, msgs |-> msgs]
    ELSE LET last_message == msgs[1]
             named == SelectSeq(last_message.list, HasName)
             updated_restaurants == MapSeq(named, LAMBDA r : SetCallId(r, call_results))
         IN IF CallResultsMapRaises(call_results)
            THEN [raised |-> TRUE, wrote |-> FALSE, msgs |-> msgs]
            ELSE IF last_message.kind # "list"
            THEN [raised |-> FALSE, wrote |-> FALSE, msgs |-> msgs]
            ELSE IF Truthy(last_message.id)
            THEN [raised |-> FALSE, wrote |-> TRUE,
                  msgs |-> UpdateDocument(msgs, last_message.id, updated_restaurants)]
            ELSE [raised |-> FALSE, wrote |-> TRUE,
                  msgs |-> WriteTaskMessage(msgs, updated_restaurants)]

\* --------------------------------- _update_firestore_with_call_results
\* Mutant: the candidates of the other calls are given up.
SetCallDataElseFailed(r, call_id, recording_url, transcript) ==
    IF r.call_id = call_id
    THEN [r EXCEPT !.recording_url = recording_url, !.transcript = transcript,
                   !.status = "completed"]
    ELSE [r EXCEPT !.status = "failed"]

\* Mutant: a candidate still loading is taken for the polled call's.
SetCallDataOrLoading(r, call_id, recording_url, transcript) ==
    IF r.call_id = call_id \/ r.status = "loading"
    THEN [r EXCEPT !.recording_url = recording_url, !.transcript = transcript,
                   !.status = "completed"]
    ELSE r

\* Mutant: the call_id test is missing.
SetCallDataAll(r, call_id, recording_url, transcript) ==
    [r EXCEPT !.recording_url = recording_url, !.transcript = transcript,
              !.status = "completed"]

SetCallData(r, call_id, recording_url, transcript) ==
    IF r.call_id = call_id
    THEN [r EXCEPT !.recording_url = recording_url, !.transcript = transcript,
                   !.status = "completed"]
    ELSE r

UpdateFirestoreWithCallResults(msgs, call_id, recording_url, transcript) ==
    IF msgs = <<>> THEN [raised |-> FALSE, wrote |-> FALSE, msgs |-> msgs]
    ELSE LET last_message == msgs[1]
             named == SelectSeq(last_message.list, HasName)
             updated_restaurants ==
                 MapSeq(named, LAMBDA r : SetCallData(r, call_id, recording_url, transcript))
         IN IF last_message.kind # "list"
            THEN [raised |-> FALSE, wrote |-> FALSE, msgs |-> msgs]
            ELSE IF Truthy(last_message.id)
            THEN [raised |-> FALSE, wrote |-> TRUE,
                  msgs |-> UpdateDocument(msgs, last_message.id, updated_restaurants)]
            ELSE [raised |-> FALSE, wrote |-> FALSE, msgs |-> msgs]

\* ------------------------------------- routes.get_selected_options_status
\* What a client polling the status endpoint is shown.
GetSelectedOptionsStatus(msgs) ==
    IF msgs = <<>> \/ msgs[1].kind # "list" THEN <<>>
    ELSE MapSeq(SelectSeq(msgs[1].list, IsSelected), DictOption)

\* ================================================================ state
VARIABLES
    messages,          \* the task's message documents, newest first
    nextCallId,        \* Call Provider: the id it gives the next placed call
    nextSummary,       \* Requirement Summarizer: the number of its next answer
    pc,                \* position of execute_phone_calls_for_selected_options
    campaigns,         \* how many times execute_... has been invoked
    selected_options,  \* its local selected_options
    conversation_text, \* its local conversation_text
    sourcing_requirement, \* its local sourcing_requirement (0: not yet assigned)
    call_results,      \* its local call_results (the returned list at "returned")
    log,               \* the external calls the current invocation has made
    sessions,          \* the _poll_call_results_async tasks, in creation order
    polled             \* the last get_synthflow_call of the running poll iteration

VARIABLES
    session_store,     \* AgentService._session_store: session id -> memory
    nextUuid,          \* uuid.uuid4: the index of the next id it gives
    task_messages,     \* the messages of the order's task, newest first
    last_call,         \* ghost: the last call served by the AgentService
    read_messages,     \* an update helper's local `messages`, between read and write
    edit,              \* ghost: the last change made by another writer
    llm_output,        \* search_restaurants_tool: what llm.invoke does
    restaurants        \* search_restaurants_tool: the list it returns

vars == <<messages, nextCallId, nextSummary, pc, campaigns, selected_options,
          conversation_text, sourcing_requirement, call_results, log, sessions, polled,
          session_store, nextUuid, task_messages, last_call, read_messages, edit,
          llm_output, restaurants>>

agentVars == <<session_store, nextUuid, task_messages, last_call>>

raceVars == <<read_messages, edit>>

toolVars == <<llm_output, restaurants>>

\* No call of the search tool.
NoOutput == [kind |-> "none", items |-> <<>>, lines |-> <<>>]

\* op: "get_agent", "clear_session", "delete_session" (session_id: the
\* argument; memory: the memory get_agent returned) or "process_order" (the
\* request's fields, whether a store call or the agent failed, the task's
\* last user message, how often memory.clear and agent.invoke were called,
\* the HTTP status and the session_id of the response).
NoCall == [op |-> "none", session_id |-> Absent, req_session_id |-> Absent,
           req_task_id |-> FALSE, fault |-> FALSE, last_user_message |-> "",
           clears |-> 0, invokes |-> 0, status_code |-> 0,
           response_session_id |-> Absent, memory |-> <<>>]

\* at: the position of the update helper when the other writer wrote; list:
\* the candidate list the other writer left in the current message.
NoEdit == [at |-> "none", list |-> <<>>]

\* No AgentService call and no other writer: the state of these parts in the
\* specifications of the campaign, the fetch and the helpers.
ServiceIdle ==
    /\ session_store = <<>>
    /\ nextUuid = 1
    /\ task_messages = <<>>
    /\ last_call = NoCall
    /\ read_messages = <<>>
    /\ edit = NoEdit
    /\ llm_output = NoOutput
    /\ restaurants = <<>>

campaignVars == <<pc, campaigns, selected_options, conversation_text,
                  sourcing_requirement, call_results, log>>

\* polled.saved: _update_firestore_with_call_results was called and returned.
NoPoll == [session |-> 0, call_id |-> 0, outcome |-> "none", saved |-> FALSE]

\* op: "update" (doc_ref.update), "store_error" (a store call raised),
\* "summarize", "place_call" (outcome "returned" / "raised"), "create_task".
\* custom: the sourcing requirement a summarize returned or a place_call
\* carried as its custom variable (0: none).
LogEntry(op, name, phone, outcome) ==
    [op |-> op, name |-> name, phone |-> phone, outcome |-> outcome, custom |-> 0]

Did(op) == LogEntry(op, Absent, Absent, Absent)

\* The log after a store update that either raised in the store, or called
\* doc_ref.update, or returned without writing.
LogUpdate(l, store_ok, wrote) ==
    IF ~store_ok THEN Append(l, Did("store_error"))
    ELSE IF wrote THEN Append(l, Did("update"))
    ELSE l

\* The event loop runs one thing at a time: execute_... never yields, and a
\* poll task yields only at its sleep.
ExecuteRunning == pc \in {"fetched", "marked", "placing", "placed", "persisted"}

PollRunning == \E s \in 1..Len(sessions) : sessions[s].state = "running"

\* Mutant: every store call and every provider call is a yield point.
LoopFreeAlways == TRUE

LoopFree == ~ExecuteRunning /\ ~PollRunning

Init ==
    /\ messages \in InitStores
    /\ nextCallId = 1
    /\ nextSummary = 1
    /\ pc = "idle"
    /\ campaigns = 0
    /\ selected_options = <<>>
    /\ conversation_text = <<>>
    /\ sourcing_requirement = 0
    /\ call_results = <<>>
    /\ log = <<>>
    /\ sessions = <<>>
    /\ polled = NoPoll
    /\ ServiceIdle

\* ------------------------- execute_phone_calls_for_selected_options
\* Mutant: no early return on an empty selection.
AfterFetchNoGuard(options) == "fetched"

\* Lines 141-145: `if not selected_options: return []`.
AfterFetch(options) == IF options = <<>> THEN "returned" ELSE "fetched"

\* Mutant: fetch persists the default status it reports.
StoreAfterFetchDefaults(msgs) ==
    IF msgs = <<>> \/ msgs[1].kind # "list" THEN msgs
    ELSE UpdateDocument(msgs, msgs[1].id,
             MapSeq(msgs[1].list, LAMBDA r :
                 IF IsSelected(r) /\ r.status = Absent THEN [r EXCEPT !.status = "unknown"]
                 ELSE r))

\* Lines 29-123: the only store call of fetch_selected_options is
\* get_task_messages, a query; the store is as it was.
StoreAfterFetch(msgs) == msgs

\* Lines 137-149: the call arrives; fetch_selected_options; `return []`
\* when there is nothing selected.  store_ok = FALSE: the store read raised.
Fetch ==
    /\ LoopFree
    /\ campaigns < MaxCampaigns
    /\ campaigns' = campaigns + 1
    /\ call_results' = <<>>
    /\ sourcing_requirement' = 0
    /\ \E store_ok \in BOOLEAN :
        LET got == FetchSelectedOptions(messages) IN
        /\ log' = LogUpdate(<<>>, store_ok, FALSE)
        /\ IF ~store_ok \/ got.raised
           THEN pc' = "raised" /\ selected_options' = <<>> /\ conversation_text' = <<>>
           ELSE /\ pc' = AfterFetch(got.options)
                /\ selected_options' = got.options
                /\ conversation_text' = got.text
    /\ messages' = StoreAfterFetch(messages)
    /\ UNCHANGED <<nextCallId, nextSummary, sessions, polled>>
    /\ UNCHANGED <<agentVars, raceVars, toolVars>>

\* Lines 151-152: _update_selected_options_status(task_id, selected_options,
\* "loading"), outside any inner try: its exception ends the invocation.
MarkLoading ==
    /\ pc = "fetched"
    /\ \E store_ok \in BOOLEAN :
        LET upd == UpdateSelectedOptionsStatus(messages, selected_options, "loading") IN
        /\ log' = LogUpdate(log, store_ok, upd.wrote)
        /\ IF ~store_ok \/ upd.raised
           THEN pc' = "raised" /\ UNCHANGED messages
           ELSE pc' = "marked" /\ messages' = upd.msgs
    /\ UNCHANGED <<nextCallId, nextSummary, campaigns, selected_options, conversation_text,
                   sourcing_requirement, call_results, sessions, polled>>
    /\ UNCHANGED <<agentVars, raceVars, toolVars>>

\* Line 164: the head of `for i, option in enumerate(selected_options, 1)`
\* after `done` options.
LoopPc(done, options) == IF done >= Len(options) THEN "placed" ELSE "placing"

\* Lines 154-162: the summarizer is called with conversation_text; it catches
\* its own exceptions and always answers.  Its n-th answer is the string n.
Summarize ==
    /\ pc = "marked"
    /\ pc' = LoopPc(0, selected_options)
    /\ sourcing_requirement' = nextSummary
    /\ nextSummary' = nextSummary + 1
    /\ log' = Append(log, [Did("summarize") EXCEPT !.custom = nextSummary])
    /\ UNCHANGED <<messages, nextCallId, campaigns, selected_options, conversation_text,
                   call_results, sessions, polled>>
    /\ UNCHANGED <<agentVars, raceVars, toolVars>>

\* make_synthflow_call returns the JSON of a new call or raises.
PlaceOutcomes == {"returned", "raised"}

\* Lines 183-206: the result appended for an option.
PlaceResult(option, outcome, c) ==
    IF outcome = "returned" THEN SuccessResult(option, c) ELSE FailedResult(option)

\* Mutant: the try/except is around the loop, so a raise ends the loop.
AfterPlaceAbort(i, options, outcome) ==
    IF outcome = "raised" THEN "placed" ELSE LoopPc(i, options)

\* Lines 164-206: where the loop goes after placing option i with `outcome`:
\* the except clause is inside the loop body.
AfterPlace(i, options, outcome) == LoopPc(i, options)

\* Mutant: the optional custom_variables argument is left out.
PlaceRequestNoCustom(option, requirement) ==
    [phone |-> option.phone, name |-> option.name, custom |-> 0]

\* Lines 171-181: the arguments of make_synthflow_call; custom is the value of
\* the one custom variable, "sourcing_request".
PlaceRequest(option, requirement) ==
    [phone |-> option.phone, name |-> option.name, custom |-> requirement]

\* Lines 164-206: one turn of the placement loop.  A str option raises
\* TypeError at option['name'] in the try block and again in the handler,
\* which ends the invocation.
PlaceCall ==
    /\ pc = "placing"
    /\ LET i == Len(call_results) + 1
           option == selected_options[i]
       IN IF ~option.isdict
          THEN /\ pc' = "raised"
               /\ UNCHANGED <<nextCallId, call_results, log>>
          ELSE \E outcome \in PlaceOutcomes :
               LET request == PlaceRequest(option, sourcing_requirement) IN
               /\ call_results' = Append(call_results, PlaceResult(option, outcome, nextCallId))
               /\ nextCallId' = IF outcome = "returned" THEN nextCallId + 1 ELSE nextCallId
               /\ log' = Append(log, [LogEntry("place_call", request.name, request.phone,
                                               outcome) EXCEPT !.custom = request.custom])
               /\ pc' = AfterPlace(i, selected_options, outcome)
    /\ UNCHANGED <<messages, nextSummary, campaigns, selected_options, conversation_text,
                   sourcing_requirement, sessions, polled>>
    /\ UNCHANGED <<agentVars, raceVars, toolVars>>

\* Lines 210-218: _update_firestore_message_with_call_results in a try
\* whose handler only prints.
Persist ==
    /\ pc = "placed"
    /\ pc' = "persisted"
    /\ \E store_ok \in BOOLEAN :
        LET upd == UpdateFirestoreMessageWithCallResults(messages, call_results) IN
        /\ log' = LogUpdate(log, store_ok, upd.wrote)
        /\ messages' = IF ~store_ok \/ upd.raised THEN messages ELSE upd.msgs
    /\ UNCHANGED <<nextCallId, nextSummary, campaigns, selected_options, conversation_text,
                   sourcing_requirement, call_results, sessions, polled>>
    /\ UNCHANGED <<agentVars, raceVars, toolVars>>

\* Mutant: the status and call_id tests are missing.
CallIdsAll(results) == [i \in 1..Len(results) |-> results[i].call_result]

RECURSIVE CallIds(_)
\* Lines 220-228: the call ids of the success results, in result order.
CallIds(results) ==
    IF results = <<>> THEN <<>>
    ELSE LET r == Head(results) IN
         (IF r.status = "success" /\ Truthy(r.call_result) THEN <<r.call_result>> ELSE <<>>)
         \o CallIds(Tail(results))

\* Mutant: the poll coroutine is awaited, not scheduled: it has run when
\* execute_... goes on.
NewSessionAwaited(call_ids) ==
    [call_ids |-> call_ids, iteration |-> max_iterations, cursor |-> 0,
     completed_calls |-> {}, state |-> "done"]

\* Lines 359-363: a poll task before its first iteration.
NewSession(call_ids) ==
    [call_ids |-> call_ids, iteration |-> 0, cursor |-> 0, completed_calls |-> {},
     state |-> "sleeping"]

\* Lines 230-237: asyncio.create_task(...) when there are call ids; return.
StartPollAndReturn ==
    /\ pc = "persisted"
    /\ pc' = "returned"
    /\ LET call_ids == CallIds(call_results) IN
       IF call_ids # <<>>
       THEN /\ sessions' = Append(sessions, NewSession(call_ids))
            /\ log' = Append(log, Did("create_task"))
       ELSE UNCHANGED <<sessions, log>>
    /\ UNCHANGED <<messages, nextCallId, nextSummary, campaigns, selected_options,
                   conversation_text, sourcing_requirement, call_results, polled>>
    /\ UNCHANGED <<agentVars, raceVars, toolVars>>

\* ------------------------------------------- _poll_call_results_async
\* Lines 365-368: the task is scheduled and starts its next iteration.
PollBegin(s) ==
    /\ LoopFree
    /\ sessions[s].state = "sleeping"
    /\ sessions[s].iteration < max_iterations
    /\ sessions' = [sessions EXCEPT ![s].iteration = @ + 1, ![s].cursor = 1,
                                    ![s].state = "running"]
    /\ polled' = NoPoll
    /\ UNCHANGED <<messages, nextCallId, nextSummary, campaignVars>>
    /\ UNCHANGED <<agentVars, raceVars, toolVars>>

\* What get_synthflow_call can answer for a call: it raises, or its JSON has
\* no calls, or calls[0] with neither / one / both of recording_url and
\* transcript non-empty.
StatusOutcomes == {"raise", "no_calls", "neither", "recording_only", "transcript_only", "both"}

\* Lines 387-388: calls[0].get("recording_url") / .get("transcript") of the
\* answer for call c: c when the provider holds it, 0 when empty or missing.
RecordingOf(c, outcome) == IF outcome \in {"recording_only", "both"} THEN c ELSE 0

TranscriptOf(c, outcome) == IF outcome \in {"transcript_only", "both"} THEN c ELSE 0

\* Mutant: `or` in place of `and`.
HasResultsAny(outcome) == outcome \in {"recording_only", "transcript_only", "both"}

\* Lines 384-389: `if calls and len(calls) > 0` and `if recording_url and transcript`.
HasResults(outcome) == outcome = "both"

\* Mutant: completed calls are not skipped.
SkipNever(call_id, completed_calls) == FALSE

\* Lines 371-373: `if call_id in completed_calls: continue`.
SkipCall(call_id, completed_calls) == call_id \in completed_calls

\* Mutant: the add precedes the store write, outside its try.
MarkCompletedOnResults(completed_calls, call_id, has_results, saved) ==
    IF has_results THEN completed_calls \cup {call_id} ELSE completed_calls

\* Lines 398-410: completed_calls.add(call_id) follows the store write inside
\* the same try: it is reached only when the write returned.
MarkCompleted(completed_calls, call_id, has_results, saved) ==
    IF saved THEN completed_calls \cup {call_id} ELSE completed_calls

\* Mutant: the try is around the inner loop, so a raising query ends the
\* iteration's queries.
NextCursorAbort(cursor, call_ids, outcome) ==
    IF outcome = "raise" THEN Len(call_ids) + 1 ELSE cursor + 1

\* Lines 370-413: the try / except is inside the loop body: whatever the
\* query and the save do, the loop goes on to the next call id.
NextCursor(cursor, call_ids, outcome) == cursor + 1

\* Lines 370-413: the inner loop's turn for call_ids[cursor].
PollCall(s) ==
    /\ sessions[s].state = "running"
    /\ sessions[s].cursor <= Len(sessions[s].call_ids)
    /\ LET call_id == sessions[s].call_ids[sessions[s].cursor] IN
       IF SkipCall(call_id, sessions[s].completed_calls)
       THEN /\ sessions' = [sessions EXCEPT ![s].cursor = @ + 1]
            /\ polled' = NoPoll
            /\ UNCHANGED messages
       ELSE \E outcome \in StatusOutcomes, store_ok \in BOOLEAN :
            LET upd == UpdateFirestoreWithCallResults(messages, call_id,
                           RecordingOf(call_id, outcome), TranscriptOf(call_id, outcome))
                saved == HasResults(outcome) /\ store_ok /\ ~upd.raised
            IN /\ ~HasResults(outcome) => store_ok
               /\ polled' = [session |-> s, call_id |-> call_id, outcome |-> outcome,
                             saved |-> saved]
               /\ messages' = IF saved THEN upd.msgs ELSE messages
               /\ sessions' = [sessions EXCEPT
                      ![s].cursor = NextCursor(@, sessions[s].call_ids, outcome),
                      ![s].completed_calls =
                          MarkCompleted(@, call_id, HasResults(outcome), saved)]
    /\ UNCHANGED <<nextCallId, nextSummary, campaignVars>>
    /\ UNCHANGED <<agentVars, raceVars, toolVars>>

\* Mutant: no early break.
AfterIterationNoBreak(session) ==
    IF session.iteration < max_iterations THEN "sleeping" ELSE "done"

\* Lines 415-427: after the inner loop: break when every call is completed,
\* sleep when an iteration is left, else the loop is exhausted.
AfterIteration(session) ==
    IF Cardinality(session.completed_calls) = Len(session.call_ids) THEN "done"
    ELSE IF session.iteration < max_iterations THEN "sleeping"
    ELSE "done"

\* Lines 415-429: the end of an iteration.
PollEnd(s) ==
    /\ sessions[s].state = "running"
    /\ sessions[s].cursor > Len(sessions[s].call_ids)
    /\ sessions' = [sessions EXCEPT ![s].cursor = 0, ![s].state = AfterIteration(sessions[s])]
    /\ polled' = NoPoll
    /\ UNCHANGED <<messages, nextCallId, nextSummary, campaignVars>>
    /\ UNCHANGED <<agentVars, raceVars, toolVars>>

\* ------------------------------------------- POST /execute-phone-calls
\* Mutant: every result is reported as a call in progress.
RouteEntryAllLoading(result) ==
    [name |-> result.restaurant_name, phone |-> result.phone,
     call_id |-> result.call_result, status |-> "loading", error |-> Absent]

\* api/routes.py lines 153-176: the entry of the response for one CallResult;
\* call_id 0 is null, error Absent is a missing key.
RouteEntry(result) ==
    IF result.status = "success"
    THEN [name |-> result.restaurant_name, phone |-> result.phone,
          call_id |-> result.call_result, status |-> "loading", error |-> Absent]
    ELSE [name |-> result.restaurant_name, phone |-> result.phone,
          call_id |-> 0, status |-> "failed",
          error |-> IF result.error = Absent THEN "Unknown error" ELSE result.error]

\* api/routes.py lines 147-184: the response of the endpoint when
\* execute_phone_calls_for_selected_options raised (HTTP 500) or returned
\* `results`.
ExecutePhoneCallsRoute(raised, results) ==
    IF raised
    THEN [status_code |-> 500, selected_options |-> <<>>]
    ELSE [status_code |-> 200,
          selected_options |-> [i \in 1..Len(results) |-> RouteEntry(results[i])]]

Next ==
    \/ Fetch
    \/ MarkLoading
    \/ Summarize
    \/ PlaceCall
    \/ Persist
    \/ StartPollAndReturn
    \/ \E s \in 1..Len(sessions) : PollBegin(s)
    \/ \E s \in 1..Len(sessions) : PollCall(s)
    \/ \E s \in 1..Len(sessions) : PollEnd(s)

Spec == Init /\ [][Next]_vars

\* ------------------------------------------ the update helpers on their own
\* The candidate lists the helpers can read; they do not look at `selected`.
HelperLists == {l \in StoredLists : \A i \in 1..Len(l) : l[i].selected # Absent}

\* The stores the helpers can read: no message, a text, or a candidate list
\* in the newest message, alone or over an older list message.  Id 0 is a
\* message whose id is empty (the `else` of `if message_id:`).
HelperStores ==
    { <<>>, <<StrMessage(1, <<"1", ".", " ", "a">>)>> }
    \cup {<<ListMessage(1, l)>> : l \in HelperLists}
    \cup {<<ListMessage(0, l)>> : l \in HelperLists}
    \cup {<<ListMessage(2, l)>> \o OlderListMessage : l \in HelperLists}

\* The update sets: options naming none, one or both vendors.
HelperOptions ==
    {MapSeq(names, LAMBDA n : DictOption(NewCandidate(n, Absent, "True"))) :
        names \in {<<>>, <<"A">>, <<"B">>, <<"A", "B">>, <<"B", "A">>}}

\* A helper call: its arguments (status, or call_id with the provider's
\* results for it) and whether it returned or raised.
HelperCall(op, status, call_id, raised) ==
    [op |-> op, status |-> status, call_id |-> call_id,
     outcome |-> IF raised THEN "raised" ELSE "returned"]

\* What the call does to the store.
ApplyHelper(msgs, call, options, results) ==
    CASE call.op = "status" -> UpdateSelectedOptionsStatus(msgs, options, call.status)
      [] call.op = "completion" ->
             UpdateFirestoreWithCallResults(msgs, call.call_id, call.call_id, call.call_id)
      [] OTHER -> UpdateFirestoreMessageWithCallResults(msgs, results)

InitHelpers ==
    /\ messages \in HelperStores
    /\ selected_options \in HelperOptions
    /\ nextCallId = 1
    /\ nextSummary = 1
    /\ pc = "idle"
    /\ campaigns = 0
    /\ conversation_text = <<>>
    /\ sourcing_requirement = 0
    /\ call_results = <<>>
    /\ log = <<>>
    /\ sessions = <<>>
    /\ polled = NoPoll
    /\ ServiceIdle

\* One call of a helper with the given arguments; store_ok = FALSE: a store
\* call of the helper raised.
CallHelper(call, results, store_ok) ==
    LET upd == ApplyHelper(messages, call, selected_options, results)
        raised == ~store_ok \/ upd.raised
    IN /\ messages' = IF raised THEN messages ELSE upd.msgs
       /\ log' = Append(log, [call EXCEPT !.outcome = IF raised THEN "raised" ELSE "returned"])
       /\ call_results' = results
       /\ UNCHANGED <<nextCallId, nextSummary, campaigns, selected_options,
                       conversation_text, sourcing_requirement, sessions, polled>>
       /\ UNCHANGED <<agentVars, raceVars, toolVars>>

\* _update_selected_options_status(task_id, options, status).
HelperStatus ==
    /\ pc = "idle"
    /\ pc' = "once"
    /\ \E status \in {"loading", "completed"}, store_ok \in BOOLEAN :
           CallHelper(HelperCall("status", status, 0, FALSE), <<>>, store_ok)

\* _update_firestore_with_call_results(task_id, c, recording_url, transcript).
HelperCompletion ==
    /\ pc = "idle"
    /\ pc' = "once"
    /\ \E c \in 1..MaxCands, store_ok \in BOOLEAN :
           CallHelper(HelperCall("completion", Absent, c, FALSE), <<>>, store_ok)

\* _update_firestore_message_with_call_results(task_id, call_results), the
\* results being those of placing the options, with new call ids.
HelperPersist ==
    /\ pc = "idle"
    /\ pc' = "once"
    /\ \E f \in [1..Len(selected_options) -> PlaceOutcomes], store_ok \in BOOLEAN :
           CallHelper(HelperCall("persist", Absent, 0, FALSE),
                      [k \in 1..Len(selected_options) |->
                          PlaceResult(selected_options[k], f[k], MaxCands + k)],
                      store_ok)

\* The same call once more, with the same arguments.
HelperRepeat ==
    /\ pc = "once"
    /\ pc' = "twice"
    /\ \E store_ok \in BOOLEAN : CallHelper(log[1], call_results, store_ok)

NextHelpers ==
    \/ HelperStatus
    \/ HelperCompletion
    \/ HelperPersist
    \/ HelperRepeat

SpecHelpers == InitHelpers /\ [][NextHelpers]_vars

\* ------------------------------------- fetch_selected_options on its own
\* The invocation's first step, fetch_selected_options, on every store it can
\* be given.
InitFetch ==
    /\ messages \in FetchStores
    /\ nextCallId = 1
    /\ nextSummary = 1
    /\ pc = "idle"
    /\ campaigns = 0
    /\ selected_options = <<>>
    /\ conversation_text = <<>>
    /\ sourcing_requirement = 0
    /\ call_results = <<>>
    /\ log = <<>>
    /\ sessions = <<>>
    /\ polled = NoPoll
    /\ ServiceIdle

NextFetch == Fetch

SpecFetch == InitFetch /\ [][NextFetch]_vars

\* ------------------------------------------------ services/agent.py
MaxOrders == 2
MaxTaskMessages == 2

\* Session ids a client chooses, and the ids uuid.uuid4 gives, in order.
ClientIds == {"test-session"}

Uuids == <<"uuid-1", "uuid-2", "uuid-3", "uuid-4">>

Issued == {Uuids[k] : k \in 1..(nextUuid - 1)}

\* A message of the order's task as write_task_message stores it: a sender
\* and a text ("" is the empty text).
Senders == {"me", "user", "ai", "assistant", "other"}

Texts == {"", "pizza"}

TaskMessages == SeqsUpTo([sender : Senders, text : Texts], MaxTaskMessages)

\* An order request: session_id is OrderRequest.session_id (Absent: None);
\* has_task_id says whether the object has a task_id attribute at all.
\* schemas.OrderRequest declares messages and session_id only.
Requests == [has_task_id : BOOLEAN, session_id : ClientIds \cup {Absent}]

\* Mutant: every call makes a new memory.
GetAgentStoreReplace(store, session_id) == (session_id :> <<>>) @@ store

\* get_agent, lines 34-38: the store after the call; the memory returned is
\* the one stored under session_id.
GetAgentStore(store, session_id) ==
    IF session_id \in DOMAIN store THEN store ELSE store @@ (session_id :> <<>>)

\* clear_session, lines 68-69.
ClearSessionStore(store, session_id) ==
    IF session_id \in DOMAIN store THEN [store EXCEPT ![session_id] = <<>>] ELSE store

\* delete_session, lines 73-74.
DeleteSessionStore(store, session_id) ==
    [k \in DOMAIN store \ {session_id} |-> store[k]]

IsUser(msg) == msg.sender \in {"me", "user"}

IsAi(msg) == msg.sender \in {"ai", "assistant"}

\* Lines 108-115: what the loop over the messages, oldest first, adds to the
\* memory.
ChatHistory(history) ==
    LET kept == SelectSeq(history, LAMBDA m : IsUser(m) \/ IsAi(m))
    IN [i \in 1..Len(kept) |->
           [role |-> IF IsUser(kept[i]) THEN "human" ELSE "ai", text |-> kept[i].text]]

\* Mutant: the last message counts, whoever sent it.
LastMessageText(history) ==
    IF history = <<>> THEN "" ELSE history[Len(history)].text

\* Lines 107-112: the text of the last user message, "" when there is none
\* (None and "" both fail `if not last_user_message`).
LastUserMessage(history) ==
    LET users == SelectSeq(history, IsUser)
    IN IF users = <<>> THEN "" ELSE users[Len(users)].text

\* Line 79: `session_id = self.create_session_id()`, whatever the request
\* carries.
OrderSessionId(req, uuid) == uuid

\* process_order, lines 82-154, after get_agent: the HTTP status, the
\* session's memory, how often agent.invoke ran and whether the answer was
\* written to the task.  req.task_id on an object without the attribute
\* raises AttributeError, wrapped as 500 like every other exception.
\* agent.invoke saves the input and its output in the memory it was built
\* with.
ProcessOrderResult(req, msgs, store_ok, llm, write_ok) ==
    LET history == Reverse(msgs)
        memory == ChatHistory(history)
        last == LastUserMessage(history)
    IN IF ~req.has_task_id \/ ~store_ok
       THEN [status_code |-> 500, memory |-> <<>>, invokes |-> 0, wrote |-> FALSE]
       ELSE IF msgs = <<>>
       THEN [status_code |-> 404, memory |-> <<>>, invokes |-> 0, wrote |-> FALSE]
       ELSE IF last = ""
       THEN [status_code |-> 400, memory |-> memory, invokes |-> 0, wrote |-> FALSE]
       ELSE IF llm = "raised"
       THEN [status_code |-> 500, memory |-> memory, invokes |-> 1, wrote |-> FALSE]
       ELSE [status_code |-> IF write_ok THEN 200 ELSE 500,
             memory |-> memory \o <<[role |-> "human", text |-> last],
                                    [role |-> "ai", text |-> "answer"]>>,
             invokes |-> 1, wrote |-> write_ok]

InitAgent ==
    /\ messages = <<>>
    /\ nextCallId = 1
    /\ nextSummary = 1
    /\ pc = "idle"
    /\ campaigns = 0
    /\ selected_options = <<>>
    /\ conversation_text = <<>>
    /\ sourcing_requirement = 0
    /\ call_results = <<>>
    /\ log = <<>>
    /\ sessions = <<>>
    /\ polled = NoPoll
    /\ session_store = <<>>
    /\ nextUuid = 1
    /\ task_messages \in TaskMessages
    /\ last_call = NoCall
    /\ read_messages = <<>>
    /\ edit = NoEdit
    /\ llm_output = NoOutput
    /\ restaurants = <<>>

AgentCall(op, session_id, memory) ==
    [NoCall EXCEPT !.op = op, !.session_id = session_id, !.memory = memory]

\* get_agent(session_id), of a client's id or of an id handed out before.
GetAgent ==
    /\ \E session_id \in ClientIds \cup Issued :
        /\ session_store' = GetAgentStore(session_store, session_id)
        /\ last_call' = AgentCall("get_agent", session_id, session_store'[session_id])
    /\ UNCHANGED <<nextUuid, task_messages>>
    /\ UNCHANGED <<messages, nextCallId, nextSummary, campaignVars, sessions, polled, raceVars, toolVars>>

\* clear_session(session_id).
ClearSession ==
    /\ \E session_id \in ClientIds \cup Issued :
        /\ session_store' = ClearSessionStore(session_store, session_id)
        /\ last_call' = AgentCall("clear_session", session_id, <<>>)
    /\ UNCHANGED <<nextUuid, task_messages>>
    /\ UNCHANGED <<messages, nextCallId, nextSummary, campaignVars, sessions, polled, raceVars, toolVars>>

\* delete_session(session_id).
DeleteSession ==
    /\ \E session_id \in ClientIds \cup Issued :
        /\ session_store' = DeleteSessionStore(session_store, session_id)
        /\ last_call' = AgentCall("delete_session", session_id, <<>>)
    /\ UNCHANGED <<nextUuid, task_messages>>
    /\ UNCHANGED <<messages, nextCallId, nextSummary, campaignVars, sessions, polled, raceVars, toolVars>>

\* process_order(req): a coroutine without an await, so one step.  The
\* memory is cleared once (line 84), right after get_agent.
ProcessOrder ==
    /\ nextUuid <= MaxOrders
    /\ nextUuid' = nextUuid + 1
    /\ \E req \in Requests, store_ok \in BOOLEAN, write_ok \in BOOLEAN,
          llm \in {"returned", "raised"} :
        LET session_id == OrderSessionId(req, Uuids[nextUuid])
            r == ProcessOrderResult(req, task_messages, store_ok, llm, write_ok)
        IN /\ session_store' =
                  [GetAgentStore(session_store, session_id) EXCEPT ![session_id] = r.memory]
           /\ task_messages' =
                  IF r.wrote THEN <<[sender |-> "ai", text |-> "answer"]>> \o task_messages
                  ELSE task_messages
           /\ last_call' =
                  [op |-> "process_order", session_id |-> session_id,
                   req_session_id |-> req.session_id, req_task_id |-> req.has_task_id,
                   fault |-> ~store_ok \/ ~write_ok \/ llm = "raised",
                   last_user_message |-> LastUserMessage(Reverse(task_messages)),
                   clears |-> 1, invokes |-> r.invokes, status_code |-> r.status_code,
                   response_session_id |->
                       IF r.status_code = 200 THEN session_id ELSE Absent,
                   memory |-> r.memory]
    /\ UNCHANGED <<messages, nextCallId, nextSummary, campaignVars, sessions, polled, raceVars, toolVars>>

NextAgent ==
    \/ GetAgent
    \/ ClearSession
    \/ DeleteSession
    \/ ProcessOrder

SpecAgent == InitAgent /\ [][NextAgent]_vars

\* ------------------------- an update helper and another writer of the task
\* The helper calls that read the newest message and write its list back.
RaceCalls ==
    {HelperCall("status", status, 0, FALSE) : status \in {"loading", "completed"}}
    \cup {HelperCall("completion", Absent, c, FALSE) : c \in 1..MaxCands}

InitRace ==
    /\ messages \in HelperStores
    /\ selected_options \in HelperOptions
    /\ nextCallId = 1
    /\ nextSummary = 1
    /\ pc = "idle"
    /\ campaigns = 0
    /\ conversation_text = <<>>
    /\ sourcing_requirement = 0
    /\ call_results = <<>>
    /\ log = <<>>
    /\ sessions = <<>>
    /\ polled = NoPoll
    /\ ServiceIdle

\* Lines 443 / 514: `messages = firestore_service.get_task_messages(task_id)`,
\* the helper's only read of the store.
RaceRead ==
    /\ pc = "idle"
    /\ pc' = "read"
    /\ \E call \in RaceCalls : log' = <<[call EXCEPT !.outcome = "reading"]>>
    /\ read_messages' = messages
    /\ UNCHANGED <<messages, nextCallId, nextSummary, campaigns, selected_options,
                   conversation_text, sourcing_requirement, call_results, sessions, polled,
                   agentVars, toolVars, edit>>

\* Mutant: the write is given up when the store is no longer what was read.
WriteBackGuarded(live, snapshot, id, list) ==
    IF live = snapshot THEN UpdateDocument(live, id, list) ELSE live

\* Lines 480-488 / 549-557: doc_ref.update({"text": updated_restaurants, ...})
\* on the document that was read, with the list computed from what was read;
\* no precondition, no transaction.
WriteBack(live, snapshot, id, list) == UpdateDocument(live, id, list)

\* The rest of the helper, from the `if not messages` after the read to the
\* doc_ref.update.
RaceWrite ==
    /\ pc = "read"
    /\ pc' = "written"
    /\ LET upd == ApplyHelper(read_messages, log[1], selected_options, <<>>) IN
        /\ messages' =
               IF upd.wrote
               THEN WriteBack(messages, read_messages, read_messages[1].id, upd.msgs[1].list)
               ELSE messages
        /\ log' = <<[log[1] EXCEPT !.outcome =
                         IF upd.raised THEN "raised"
                         ELSE IF upd.wrote THEN "wrote" ELSE "returned"]>>
    /\ UNCHANGED <<nextCallId, nextSummary, campaigns, selected_options,
                   conversation_text, sourcing_requirement, call_results, sessions, polled,
                   agentVars, raceVars, toolVars>>

\* Another writer, once: the user selects or deselects a candidate of the
\* current message.
UserEdit ==
    /\ edit = NoEdit
    /\ messages # <<>>
    /\ messages[1].kind = "list"
    /\ \E i \in 1..Len(messages[1].list), v \in {"True", "False"} :
        LET list == [messages[1].list EXCEPT ![i].selected = v] IN
        /\ list # messages[1].list
        /\ messages' = UpdateDocument(messages, messages[1].id, list)
        /\ edit' = [at |-> pc, list |-> list]
    /\ UNCHANGED <<nextCallId, nextSummary, campaignVars, sessions, polled,
                   agentVars, toolVars, read_messages>>

\* Another writer, once: an update helper of another campaign or poll session
\* on the same task, from its read to its write.
OtherUpdate ==
    /\ edit = NoEdit
    /\ \E call \in RaceCalls :
        LET upd == ApplyHelper(messages, call, selected_options, <<>>) IN
        /\ upd.wrote
        /\ upd.msgs # messages
        /\ messages' = upd.msgs
        /\ edit' = [at |-> pc, list |-> upd.msgs[1].list]
    /\ UNCHANGED <<nextCallId, nextSummary, campaignVars, sessions, polled,
                   agentVars, toolVars, read_messages>>

NextRace ==
    \/ RaceRead
    \/ RaceWrite
    \/ UserEdit
    \/ OtherUpdate

SpecRace == InitRace /\ [][NextRace]_vars

\* ----------------------- one campaign while the task gets a new message
\* The task holds one candidate-list message, document 1, and one more
\* invocation of execute_... can be made.
InitAppend ==
    /\ messages \in {<<ListMessage(1, WithPhones(l))>> : l \in InitLists \ {<<>>}}
    /\ nextCallId = 1
    /\ nextSummary = 1
    /\ pc = "idle"
    /\ campaigns = MaxCampaigns - 1
    /\ selected_options = <<>>
    /\ conversation_text = <<>>
    /\ sourcing_requirement = 0
    /\ call_results = <<>>
    /\ log = <<>>
    /\ sessions = <<>>
    /\ polled = NoPoll
    /\ ServiceIdle

\* What another writer appends to the task: a text (the user's next message,
\* the agent's answer) or a new candidate list of the engine.
AppendedMessages ==
    {StrMessage(2, <<"a", "-">>)}
    \cup {ListMessage(2, WithPhones(l)) : l \in InitLists \ {<<>>}}

\* firestore_service.write_task_message by another writer, once, after the
\* campaign has read its selections: the new document is the newest.
AppendMessage ==
    /\ pc # "idle"
    /\ Len(messages) = 1
    /\ \E m \in AppendedMessages : messages' = <<m>> \o messages
    /\ UNCHANGED <<nextCallId, nextSummary, campaignVars, sessions, polled>>
    /\ UNCHANGED <<agentVars, raceVars, toolVars>>

NextAppend ==
    \/ Next
    \/ AppendMessage

SpecAppend == InitAppend /\ [][NextAppend]_vars

\* ------------------------------------------- tools/restaurant_tools.py
TopN == 10
MaxVaried == 2

required_fields ==
    {"rank", "name", "description", "url", "image_url", "price", "phone", "notes"}

\* An element of the JSON list the LLM answered: not a dict, or a dict with
\* some of the fields; rank is an integer ("int", value k), a text that is no
\* number ("str"), null ("none") or Infinity ("inf"), price a number ("num")
\* or an integer too large for a float ("huge").
Item(isdict, fields, rank_kind, k, price) ==
    [isdict |-> isdict, fields |-> fields, rank_kind |-> rank_kind, k |-> k,
     price |-> price]

Items ==
    {Item(FALSE, {}, "none", 0, "num")}
    \cup {Item(TRUE, required_fields, kind, 0, "num") : kind \in {"str", "none", "inf"}}
    \cup {Item(TRUE, required_fields, "int", k, "num") : k \in {1, 7}}
    \cup {Item(TRUE, required_fields, "int", 1, "huge"),
          Item(TRUE, required_fields \ {"rank"}, "none", 0, "num"),
          Item(TRUE, {"name"}, "none", 0, "num")}

\* The element the prompt asks for at position i.
AskedItem(i) == Item(TRUE, required_fields, "int", i, "num")

\* Sequences of length n whose first MaxVaried elements are any of S and whose
\* other elements are given by position.
VariedSeqs(S, n, Rest(_)) ==
    LET m == IF n < MaxVaried THEN n ELSE MaxVaried
    IN {[i \in 1..n |-> IF i <= m THEN f[i] ELSE Rest(i)] : f \in [1..m -> S]}

\* What llm.invoke can do: raise, or answer a JSON list of up to TopN + 1
\* elements, JSON that is no list, or a text that is no JSON, given as the
\* lines of response.content.strip(): "text" or "blank" after line.strip(),
\* never blank at either end unless the text is empty.
LlmOutputs ==
    {[NoOutput EXCEPT !.kind = "raise"], [NoOutput EXCEPT !.kind = "json_other"]}
    \cup {[NoOutput EXCEPT !.kind = "json_list", !.items = items] :
             items \in UNION {VariedSeqs(Items, n, AskedItem) : n \in 0..(TopN + 1)}}
    \cup {[NoOutput EXCEPT !.kind = "not_json", !.lines = <<"blank">>]}
    \cup {[NoOutput EXCEPT !.kind = "not_json", !.lines = <<"text">> \o lines \o <<"text">>] :
             lines \in UNION {VariedSeqs({"text", "blank"}, n, LAMBDA i : "text") :
                                 n \in 0..(TopN - 1)}}

\* Lines 182-191, 219-228, 237-246: an entry without data.
EmptyEntry(rank) == [rank |-> rank, keys |-> required_fields, name |-> "None"]

RECURSIVE Fill(_)
\* Lines 181-191 and 218-228: `while len(...) < 10: append(... rank
\* len(...) + 1 ...)`, then `[:10]`.
Fill(entries) ==
    IF Len(entries) >= TopN THEN SubSeq(entries, 1, TopN)
    ELSE Fill(Append(entries, EmptyEntry(Len(entries) + 1)))

\* Lines 236-248: the ultimate fallback.
UltimateFallback == [i \in 1..TopN |-> EmptyEntry(i)]

\* Lines 167-176: int(rank) raises OverflowError on Infinity and float(price)
\* on an integer beyond the floats; only ValueError and TypeError are caught
\* there.
ItemRaises(item) ==
    item.isdict /\ (("rank" \in item.fields /\ item.rank_kind = "inf")
                    \/ ("price" \in item.fields /\ item.price = "huge"))

\* Lines 159-170: the rank of the element at position i (1-based): the
\* integer the LLM gave, else the position.
ValidatedRank(item, i) ==
    IF "rank" \in item.fields /\ item.rank_kind = "int" THEN item.k ELSE i

\* Lines 152-178: the validated entries of restaurants[:10]; elements that
\* are no dict are left out.
Validated(items) ==
    LET first == SubSeq(items, 1, IF Len(items) < TopN THEN Len(items) ELSE TopN)
        placed == [i \in 1..Len(first) |-> [pos |-> i, item |-> first[i]]]
        dicts == SelectSeq(placed, LAMBDA p : p.item.isdict)
    IN [j \in 1..Len(dicts) |->
           [rank |-> ValidatedRank(dicts[j].item, dicts[j].pos),
            keys |-> required_fields,
            name |-> IF "name" \in dicts[j].item.fields THEN "text" ELSE "None"]]

\* Lines 201-215: one entry per non-blank line among the first ten, ranked
\* by the line's position.
FallbackEntries(lines) ==
    LET first == SubSeq(lines, 1, IF Len(lines) < TopN THEN Len(lines) ELSE TopN)
        placed == [i \in 1..Len(first) |-> [pos |-> i, line |-> first[i]]]
        kept == SelectSeq(placed, LAMBDA p : p.line # "blank")
    IN [j \in 1..Len(kept) |->
           [rank |-> kept[j].pos, keys |-> required_fields, name |-> "text"]]

\* search_restaurants_tool, lines 129-248.
SearchRestaurants(out) ==
    CASE out.kind = "json_list" ->
             IF \E i \in 1..Len(out.items) : i <= TopN /\ ItemRaises(out.items[i])
             THEN UltimateFallback
             ELSE Fill(Validated(out.items))
      [] out.kind = "not_json" -> Fill(FallbackEntries(out.lines))
      [] OTHER -> UltimateFallback

InitTool ==
    /\ messages = <<>>
    /\ nextCallId = 1
    /\ nextSummary = 1
    /\ pc = "idle"
    /\ campaigns = 0
    /\ selected_options = <<>>
    /\ conversation_text = <<>>
    /\ sourcing_requirement = 0
    /\ call_results = <<>>
    /\ log = <<>>
    /\ sessions = <<>>
    /\ polled = NoPoll
    /\ session_store = <<>>
    /\ nextUuid = 1
    /\ task_messages = <<>>
    /\ last_call = NoCall
    /\ read_messages = <<>>
    /\ edit = NoEdit
    /\ llm_output \in LlmOutputs
    /\ restaurants = <<>>

\* One call of the tool.
SearchRestaurantsTool ==
    /\ restaurants = <<>>
    /\ restaurants' = SearchRestaurants(llm_output)
    /\ UNCHANGED <<messages, nextCallId, nextSummary, campaignVars, sessions, polled,
                   agentVars, raceVars, llm_output>>

NextTool == SearchRestaurantsTool

SpecTool == InitTool /\ [][NextTool]_vars

\* ============================================================== claims
\* The candidate list of the task's current (newest) message.
CurrentList ==
    IF messages # <<>> /\ messages[1].kind = "list" THEN messages[1].list ELSE <<>>

\* Its selected candidates, in list order: the i-th is the source of the
\* i-th selected option.
SelectedCands == SelectSeq(CurrentList, IsSelected)

NoStoreError == \A j \in 1..Len(log) : log[j].op # "store_error"

PlaceLog == SelectSeq(log, LAMBDA e : e.op = "place_call")

\* C1: after the calls are placed and the persistence step has run (the store
\* answering every call), each candidate placed successfully has persisted
\* status "loading" and a call_id, and each candidate whose placement failed
\* has no call_id.
C1_PlacedCandidatesPersisted ==
    (pc = "persisted" /\ NoStoreError) =>
        \A i \in 1..Len(call_results) :
            /\ call_results[i].status = "success" =>
                   SelectedCands[i].status = "loading" /\ Truthy(SelectedCands[i].call_id)
            /\ call_results[i].status = "failed" => ~Truthy(SelectedCands[i].call_id)

\* C2: placement is fault-isolated: a placement step only appends to the
\* results recorded so far, and once the loop is over place_call has been
\* invoked once per selected option, in order, each raising invocation being
\* recorded as a failed result with an error.
C2_PlacementFaultIsolated ==
    [][ /\ pc = "placing" =>
               SubSeq(call_results', 1, Len(call_results)) = call_results
        /\ pc' \in {"placed", "persisted"} =>
               /\ Len(PlaceLog') = Len(selected_options')
               /\ Len(call_results') = Len(selected_options')
               /\ \A k \in 1..Len(PlaceLog') :
                      /\ PlaceLog'[k].name = selected_options'[k].name
                      /\ PlaceLog'[k].phone = selected_options'[k].phone
                      /\ PlaceLog'[k].outcome = "raised" =>
                             /\ call_results'[k].status = "failed"
                             /\ call_results'[k].error # Absent
                             /\ call_results'[k].call_result = 0
                      /\ PlaceLog'[k].outcome = "returned" =>
                             call_results'[k].status = "success" ]_vars

\* C2 witness: a placement raised and the next option was still placed.
C2_Witness ==
    /\ pc = "placed"
    /\ \E k \in 1..(Len(PlaceLog) - 1) :
           PlaceLog[k].outcome = "raised" /\ PlaceLog[k + 1].outcome = "returned"

\* C3: the returned list has one result per selected candidate of the current
\* message, in order, with that candidate's name and phone.
C3_OneResultPerCandidate ==
    pc = "returned" =>
        /\ Len(call_results) = Len(SelectedCands)
        /\ \A i \in 1..Len(call_results) :
               /\ call_results[i].restaurant_name = SelectedCands[i].name
               /\ call_results[i].phone = SelectedCands[i].phone

\* C3 witness: a campaign of two candidates returned one success and one failure.
C3_Witness ==
    /\ pc = "returned"
    /\ Len(call_results) = 2
    /\ call_results[1].status # call_results[2].status

C5_LoadingBeforeFirstCall ==
    (\E j \in 1..Len(log) : log[j].op = "place_call") =>
        /\ \E u \in 1..Len(log) :
               /\ log[u].op = "update"
               /\ \A j \in 1..u : log[j].op # "place_call"
        /\ ExecuteRunning =>
               \A i \in 1..Len(GetSelectedOptionsStatus(messages)) :
                   GetSelectedOptionsStatus(messages)[i].status = "loading"

\* C5 witness: a second campaign has placed a call for a candidate that an
\* earlier campaign had completed.
C5_Witness ==
    /\ pc = "placing"
    /\ Len(call_results) >= 1
    /\ \E i \in 1..Len(SelectedCands) : Truthy(SelectedCands[i].recording_url)

AllCompleted(session) == Cardinality(session.completed_calls) = Len(session.call_ids)

\* C6: a poll session never goes beyond max_iterations iterations, sleeps
\* only while some call of its batch is not completed and an iteration is
\* left, and is over as soon as every call id is completed.
C6_PollTerminates ==
    \A s \in 1..Len(sessions) :
        /\ sessions[s].iteration <= max_iterations
        /\ sessions[s].completed_calls \subseteq
               {sessions[s].call_ids[k] : k \in 1..Len(sessions[s].call_ids)}
        /\ sessions[s].state = "sleeping" =>
               ~AllCompleted(sessions[s]) /\ sessions[s].iteration < max_iterations
        /\ sessions[s].state = "running" => sessions[s].iteration >= 1
        /\ sessions[s].state = "done" =>
               AllCompleted(sessions[s]) \/ sessions[s].iteration = max_iterations

\* C6 witness: a session of two calls ended early, every call completed.
C6_Witness ==
    \E s \in 1..Len(sessions) :
        /\ sessions[s].state = "done"
        /\ Len(sessions[s].call_ids) = 2
        /\ AllCompleted(sessions[s])
        /\ sessions[s].iteration < max_iterations

\* The step is a get_synthflow_call of session s (for polled'.call_id).
QueryStep(s) ==
    /\ polled'.session = s
    /\ sessions'[s].cursor = sessions[s].cursor + 1

\* C7 as claimed: a status query answering both recording_url and transcript
\* marks the call completed in that iteration, and a completed call is not
\* queried again.
C7_BothMarksCompleted ==
    [][\A s \in 1..Len(sessions) :
           QueryStep(s) =>
               /\ polled'.call_id \notin sessions[s].completed_calls
               /\ polled'.outcome = "both" =>
                      polled'.call_id \in sessions'[s].completed_calls]_vars

\* C7 amended: a status query answering both, whose result write does not
\* raise, marks the call completed in that iteration; a query that is not
\* saved marks nothing; and a completed call is not queried again.
C7_SavedBothMarksCompleted ==
    [][\A s \in 1..Len(sessions) :
           QueryStep(s) =>
               /\ polled'.call_id \notin sessions[s].completed_calls
               /\ (polled'.outcome = "both" /\ polled'.saved) =>
                      polled'.call_id \in sessions'[s].completed_calls
               /\ polled'.outcome # "both" =>
                      sessions'[s].completed_calls = sessions[s].completed_calls]_vars

\* C7 witness: in a later iteration the loop has just passed over a call
\* completed earlier, without querying it.
C7_Witness ==
    \E s \in 1..Len(sessions) :
        /\ sessions[s].state = "running"
        /\ sessions[s].iteration >= 2
        /\ sessions[s].cursor = 2
        /\ sessions[s].call_ids[1] \in sessions[s].completed_calls
        /\ polled = NoPoll

\* C8: the write of a detected completion of call c sets recording_url,
\* transcript and status "completed" on exactly the candidates of the current
\* message whose call_id is c, and changes nothing else in the store.
C8_CompletionWriteExact ==
    [][\A s \in 1..Len(sessions) :
           (QueryStep(s) /\ polled'.saved) =>
               /\ Len(messages') = Len(messages)
               /\ \A m \in 2..Len(messages) : messages'[m] = messages[m]
               /\ messages'[1].id = messages[1].id
               /\ Len(CurrentList') = Len(CurrentList)
               /\ \A i \in 1..Len(CurrentList) :
                      IF CurrentList[i].call_id = polled'.call_id
                      THEN CurrentList'[i] =
                               [CurrentList[i] EXCEPT !.recording_url = polled'.call_id,
                                                      !.transcript = polled'.call_id,
                                                      !.status = "completed"]
                      ELSE CurrentList'[i] = CurrentList[i]]_vars

\* C8 witness: a completion was written for one candidate while another
\* candidate, with another call, is still loading.
C8_Witness ==
    /\ polled.saved
    /\ \E i, j \in 1..Len(CurrentList) :
           /\ CurrentList[i].call_id = polled.call_id
           /\ CurrentList[i].status = "completed"
           /\ Truthy(CurrentList[j].call_id)
           /\ CurrentList[j].call_id # polled.call_id
           /\ CurrentList[j].status = "loading"

Terminal == {"completed", "failed"}

\* C9 as claimed: a persisted status "completed" or "failed" never changes.
C9_TerminalStatus ==
    [][\A i \in 1..Len(CurrentList) :
           CurrentList[i].status \in Terminal =>
               CurrentList'[i].status = CurrentList[i].status]_vars

\* C9 amended: a persisted status "completed" or "failed" is changed by no
\* poll session; it changes only in the initial write of a further campaign,
\* to "loading", for a candidate named like a selected option of that campaign.
C9_TerminalUntilRecalled ==
    [][\A i \in 1..Len(CurrentList) :
           (CurrentList[i].status \in Terminal
            /\ CurrentList'[i].status # CurrentList[i].status) =>
               /\ pc = "fetched" /\ pc' = "marked"
               /\ CurrentList'[i].status = "loading"
               /\ NameInOptions(CurrentList[i], selected_options)]_vars

\* C9 witness: the initial write of a second campaign has set a completed
\* candidate (it carries a recording) back to "loading".
C9_Witness ==
    /\ pc = "marked"
    /\ \E i \in 1..Len(CurrentList) :
           CurrentList[i].status = "loading" /\ Truthy(CurrentList[i].recording_url)

\* C10: a selected candidate whose placement raised has persisted status
\* "failed" once the persistence step has run (the store answering every call).
C10_FailedPlacementPersisted ==
    (pc = "persisted" /\ NoStoreError) =>
        \A i \in 1..Len(call_results) :
            call_results[i].status = "failed" => SelectedCands[i].status = "failed"

HasLogged(op) == \E j \in 1..Len(log) : log[j].op = op

\* C11: execute_... returns without waiting for the poll session it starts:
\* the session it creates has run no iteration and queried nothing when the
\* operation returns, no session takes a step while the operation runs, and
\* no step of a poll session changes the returned list.
C11_ReturnsWithoutWaiting ==
    [][ /\ (pc # "returned" /\ pc' = "returned" /\ Len(sessions') > Len(sessions)) =>
               /\ Len(sessions') = Len(sessions) + 1
               /\ sessions'[Len(sessions')].iteration = 0
               /\ sessions'[Len(sessions')].completed_calls = {}
               /\ sessions'[Len(sessions')].state = "sleeping"
        /\ ExecuteRunning =>
               /\ SubSeq(sessions', 1, Len(sessions)) = sessions
               /\ polled' = polled
        /\ (\E s \in 1..Len(sessions) : sessions'[s] # sessions[s]) =>
               /\ call_results' = call_results
               /\ pc' = pc ]_vars

\* C11 witness: the operation has returned two results and the session it
\* created has not run yet.
C11_Witness ==
    /\ pc = "returned"
    /\ HasLogged("create_task")
    /\ Len(call_results) = 2
    /\ sessions[Len(sessions)].iteration = 0

\* C12: when the operation has returned, it has started a poll session if and
\* only if some result has status success, and that session's batch is the
\* call ids of the success results in result order; there are never more
\* sessions than campaigns.
C12_PollStartedIffSuccess ==
    /\ Len(sessions) <= campaigns
    /\ pc = "returned" =>
           LET succ == SelectSeq(call_results, LAMBDA r : r.status = "success") IN
           /\ HasLogged("create_task") <=> succ # <<>>
           /\ HasLogged("create_task") =>
                  /\ sessions # <<>>
                  /\ sessions[Len(sessions)].call_ids =
                         [k \in 1..Len(succ) |-> succ[k].call_result]
           /\ \A k \in 1..Len(succ) : Truthy(succ[k].call_result)

\* C12 witness: the only selected candidate's place_call raised; the failed
\* result was returned and there is no poll session.
C12_Witness ==
    /\ pc = "returned"
    /\ Len(call_results) = 1
    /\ call_results[1].status = "failed"
    /\ sessions = <<>>

SummarizeLog == SelectSeq(log, LAMBDA e : e.op = "summarize")

\* C13: an invocation calls the summarizer at most once; every place_call
\* comes after that call and carries its answer as the custom variable; and
\* when the placement loop is over there has been one summarizer call and one
\* place_call per selected option.
C13_OneSharedRequirement ==
    /\ Len(SummarizeLog) <= 1
    /\ \A j \in 1..Len(log) :
           log[j].op = "place_call" =>
               \E u \in 1..(j - 1) :
                   /\ log[u].op = "summarize"
                   /\ Truthy(log[u].custom)
                   /\ log[j].custom = log[u].custom
    /\ (pc \in {"placed", "persisted"} \/ (pc = "returned" /\ selected_options # <<>>)) =>
           /\ Len(SummarizeLog) = 1
           /\ Len(PlaceLog) = Len(selected_options)

\* C13 witness: the second campaign of the task has placed two calls.
C13_Witness ==
    /\ pc = "placed"
    /\ campaigns = 2
    /\ Len(PlaceLog) = 2
    /\ PlaceLog[1].custom = 2

\* The step is a call of fetch_selected_options.
FetchStep == campaigns' = campaigns + 1

\* C14: fetch_selected_options leaves the store's messages (documents, fields
\* and order) as they were, whether it returns or raises.
C14_FetchReadOnly == [][FetchStep => messages' = messages]_vars

\* C14 witness: a fetch on a task of two messages has raised.
C14_Witness ==
    /\ campaigns > 0
    /\ pc = "raised"
    /\ NoStoreError
    /\ Len(messages) = 2

\* C15: on a task with no messages (the store answering), the fetch returns
\* empty options and an empty conversation text, and does not raise.
C15_NoMessagesEmptyResult ==
    (campaigns > 0 /\ messages = <<>> /\ NoStoreError) =>
        /\ pc = "returned"
        /\ selected_options = <<>>
        /\ conversation_text = <<>>

\* C15 witness: a fetch has returned on a task with no messages.
C15_Witness ==
    /\ campaigns > 0
    /\ messages = <<>>
    /\ pc = "returned"

\* The k-th smallest member of a set of numbers.
Kth(idx, k) == CHOOSE i \in idx : Cardinality({j \in idx : j <= i}) = k

\* C16: when the newest message holds a candidate list, the fetch returns
\* (the store answering) exactly its entries with selected = True, in list
\* order, each with its name and phone, its status or "unknown" when unset,
\* and its call_id, recording_url and transcript exactly when stored; entries
\* with selected false or unset and older messages contribute nothing.
C16_SelectedCandidatesReturned ==
    (campaigns > 0 /\ NoStoreError /\ messages # <<>> /\ messages[1].kind = "list") =>
        LET list == messages[1].list
            idx == {i \in 1..Len(list) : list[i].selected = "True"}
        IN /\ pc # "raised"
           /\ Len(selected_options) = Cardinality(idx)
           /\ \A k \in 1..Len(selected_options) :
                  LET c == list[Kth(idx, k)]
                      o == selected_options[k]
                  IN /\ o.isdict
                     /\ o.name = c.name
                     /\ o.phone = c.phone
                     /\ o.status = (IF c.status = Absent THEN "unknown" ELSE c.status)
                     /\ o.call_id = c.call_id
                     /\ o.recording_url = c.recording_url
                     /\ o.transcript = c.transcript

\* C16 witness: of two candidates over an older message, the fetch returned
\* the selected one, completed, and not the one whose `selected` is unset.
C16_Witness ==
    /\ pc = "fetched"
    /\ Len(messages) = 2
    /\ Len(CurrentList) = 2
    /\ CurrentList[1].selected = Absent
    /\ Len(selected_options) = 1
    /\ Truthy(selected_options[1].transcript)

\* The stripped lines of a text whose first character is a digit or a letter
\* and whose second character is ".", ")" or a space.
EnumeratedLines(text) ==
    SelectSeq(MapSeq(SplitLines(text), Strip),
              LAMBDA l : /\ Len(l) >= 2
                         /\ l[1] \in Digits \cup Letters
                         /\ l[2] \in {".", ")", " "})

\* C17: when the newest message holds a string, the fetch returns (the store
\* answering) exactly its enumerated lines, for every string, without raising.
C17_FallbackNeverRaises ==
    (campaigns > 0 /\ NoStoreError /\ messages # <<>> /\ messages[1].kind = "str") =>
        /\ pc # "raised"
        /\ [k \in 1..Len(selected_options) |-> selected_options[k].line]
               = EnumeratedLines(messages[1].str)

\* The step is the first call of helper `op`, and it returned.
FirstCall(op) ==
    /\ pc = "idle"
    /\ pc' = "once"
    /\ log'[1].op = op
    /\ log'[1].outcome = "returned"

\* C18: when _update_selected_options_status or the per-completion update
\* has run and is run again with the same arguments, both runs returning, the
\* candidate list persisted after the second run is the list after the first.
C18_HelperIdempotent ==
    [][ ( /\ pc = "once"
          /\ pc' = "twice"
          /\ log'[1].op \in {"status", "completion"}
          /\ log'[1].outcome = "returned"
          /\ log'[2].outcome = "returned" )
        => /\ messages' = messages
           /\ log'[2] = log'[1] ]_vars

\* C18 witness: the status helper has twice set "completed" on a candidate
\* that has no results, both runs returning.
C18_Witness ==
    /\ pc = "twice"
    /\ log[1].op = "status"
    /\ log[1].outcome = "returned"
    /\ log[2].outcome = "returned"
    /\ \E i \in 1..Len(CurrentList) :
           CurrentList[i].status = "completed" /\ ~Truthy(CurrentList[i].recording_url)

\* C19: a returning run of _update_selected_options_status writes, to the
\* message document it read, the list it read with the status of each entry
\* named like an option of the update set replaced and every other entry and
\* field as it was, in the same order; no other message changes; and when
\* the message has no id, nothing is written.
C19_StatusUpdateFrame ==
    [][ FirstCall("status") =>
            /\ Len(messages') = Len(messages)
            /\ \A m \in 2..Len(messages) : messages'[m] = messages[m]
            /\ messages # <<>> =>
                   /\ messages'[1].id = messages[1].id
                   /\ messages'[1].kind = messages[1].kind
                   /\ ~Truthy(messages[1].id) => messages'[1] = messages[1]
            /\ Len(CurrentList') = Len(CurrentList)
            /\ \A i \in 1..Len(CurrentList) :
                   IF Truthy(messages[1].id)
                      /\ \E k \in 1..Len(selected_options) :
                             selected_options[k].name = CurrentList[i].name
                   THEN CurrentList'[i] = [CurrentList[i] EXCEPT !.status = log'[1].status]
                   ELSE CurrentList'[i] = CurrentList[i] ]_vars

\* C19 witness: over an older message, the helper has set "completed" on a
\* candidate without results and left a candidate of another name, still
\* without status, as it was.
C19_Witness ==
    /\ pc = "once"
    /\ log[1].op = "status"
    /\ log[1].outcome = "returned"
    /\ Len(messages) = 2
    /\ \E i, j \in 1..Len(CurrentList) :
           /\ CurrentList[i].status = "completed"
           /\ ~Truthy(CurrentList[i].recording_url)
           /\ CurrentList[j].status = Absent

\* C20: the result-persistence step creates no message when the current
\* message has an id: it then changes at most that document's list; it adds
\* a message, one, only when the current message has no id; and the status
\* helper never adds a message.
C20_PersistInPlace ==
    [][ /\ (pc = "idle" /\ pc' = "once" /\ log'[1].op = "persist") =>
               /\ (messages # <<>> /\ Truthy(messages[1].id)) =>
                      /\ Len(messages') = Len(messages)
                      /\ messages'[1].id = messages[1].id
                      /\ \A m \in 2..Len(messages) : messages'[m] = messages[m]
               /\ Len(messages') # Len(messages) =>
                      /\ ~Truthy(messages[1].id)
                      /\ Len(messages') = Len(messages) + 1
                      /\ SubSeq(messages', 2, Len(messages')) = messages
        /\ (pc = "idle" /\ pc' = "once" /\ log'[1].op = "status") =>
               Len(messages') = Len(messages) ]_vars

\* C20 witness: the step has written a new call_id into the one message of
\* the task.
C20_Witness ==
    /\ pc = "once"
    /\ log[1].op = "persist"
    /\ log[1].outcome = "returned"
    /\ Len(messages) = 1
    /\ Truthy(messages[1].id)
    /\ \E i \in 1..Len(CurrentList) : CurrentList[i].call_id > MaxCands

\* C21: a status query that raises changes nothing but the loop position: the
\* session goes on to the next call id, nothing is written or marked, and the
\* operation's caller sees nothing; every call id not completed is queried
\* when the loop reaches it, in every iteration; and an iteration that leaves
\* a call not completed is followed by a sleep while an iteration is left.
C21_QueryFailureIsolated ==
    [][\A s \in 1..Len(sessions) :
          LET session == sessions[s] IN
          /\ (QueryStep(s) /\ polled'.outcome = "raise") =>
                 /\ sessions'[s] = [session EXCEPT !.cursor = @ + 1]
                 /\ messages' = messages
                 /\ pc' = pc
                 /\ call_results' = call_results
          /\ ( /\ session.state = "running"
               /\ session.cursor <= Len(session.call_ids)
               /\ sessions'[s] # session ) =>
                 /\ sessions'[s].cursor = session.cursor + 1
                 /\ sessions'[s].state = "running"
                 /\ session.call_ids[session.cursor] \notin session.completed_calls =>
                        /\ polled'.session = s
                        /\ polled'.call_id = session.call_ids[session.cursor]
          /\ ( /\ session.state = "running"
               /\ session.cursor > Len(session.call_ids)
               /\ sessions'[s] # session
               /\ ~AllCompleted(session)
               /\ session.iteration < max_iterations ) =>
                 sessions'[s].state = "sleeping"
          /\ (session.state = "sleeping" /\ sessions'[s] # session) =>
                 /\ sessions'[s].state = "running"
                 /\ sessions'[s].cursor = 1
                 /\ sessions'[s].iteration = session.iteration + 1
                 /\ sessions'[s].completed_calls = session.completed_calls]_vars

\* C21 witness: in a later iteration of a session of two calls, the query of
\* the first call has raised and the second call is still to be queried.
C21_Witness ==
    /\ polled.outcome = "raise"
    /\ polled.session # 0
    /\ LET session == sessions[polled.session] IN
       /\ session.iteration >= 2
       /\ Len(session.call_ids) = 2
       /\ session.cursor = 2
       /\ session.completed_calls = {}

Pending(session) ==
    {session.call_ids[k] : k \in 1..Len(session.call_ids)} \ session.completed_calls

\* C22: no persisted status is ever anything but unset, "loading" or
\* "completed"; a candidate carrying the call_id of a call its session has not
\* completed has status "loading", and still has it when the session is over
\* after max_iterations iterations.
C22_PendingStaysLoading ==
    /\ \A i \in 1..Len(CurrentList) :
           CurrentList[i].status \in {Absent, "loading", "completed"}
    /\ \A s \in 1..Len(sessions) :
           /\ \A i \in 1..Len(CurrentList) :
                  CurrentList[i].call_id \in Pending(sessions[s]) =>
                      CurrentList[i].status = "loading"
           /\ (sessions[s].state = "done" /\ Pending(sessions[s]) # {}) =>
                  sessions[s].iteration = max_iterations

\* C22 witness: a session of two calls is over after max_iterations
\* iterations; one candidate is completed, the other's call is not and the
\* candidate is loading.
C22_Witness ==
    \E s \in 1..Len(sessions) :
        /\ sessions[s].state = "done"
        /\ sessions[s].iteration = max_iterations
        /\ \E i, j \in 1..Len(CurrentList) :
               /\ CurrentList[i].call_id \in Pending(sessions[s])
               /\ CurrentList[i].status = "loading"
               /\ CurrentList[j].call_id \in sessions[s].completed_calls
               /\ CurrentList[j].status = "completed"

\* C27: a persisted candidate with status "completed" has a non-empty
\* recording_url and a non-empty transcript; the last provider answer, when it
\* held only one of the two, neither, or no call at all, was not saved.
C27_CompletedHasBoth ==
    /\ \A k \in 1..Len(messages) :
           messages[k].kind = "list" =>
               \A i \in 1..Len(messages[k].list) :
                   messages[k].list[i].status = "completed" =>
                       /\ Truthy(messages[k].list[i].recording_url)
                       /\ Truthy(messages[k].list[i].transcript)
    /\ polled.outcome \in {"no_calls", "neither", "recording_only",
                            "transcript_only"} => ~polled.saved

\* C27 witness: the provider has just answered with a recording and no
\* transcript for a call whose candidate is still loading, next to a
\* completed candidate.
C27_Witness ==
    /\ polled.outcome = "recording_only"
    /\ \E i, j \in 1..Len(CurrentList) :
           /\ CurrentList[i].call_id = polled.call_id
           /\ CurrentList[i].status = "loading"
           /\ CurrentList[j].status = "completed"

AllDicts(options) == \A i \in 1..Len(options) : options[i].isdict

\* C23: an invocation whose fetch raised has raised to the caller, and an
\* invocation that has got its sourcing requirement and entered the placement
\* loop never raises, whatever the shape of its options: what goes wrong for
\* an option is captured in that option's result.
C23_PlacementNeverPropagates ==
    /\ (pc # "idle" /\ selected_options = <<>> /\ log = <<Did("store_error")>>) =>
           pc = "raised"
    /\ pc = "raised" => ~HasLogged("summarize")

\* C24: an invocation that fetched selected (dict) options does not raise,
\* whichever of its store writes fails: it goes on to place every call, and
\* when it has returned there is one result per selected option.
C24_WriteFailureOnlyLogged ==
    (selected_options # <<>> /\ AllDicts(selected_options)) =>
        /\ pc # "raised"
        /\ pc = "returned" => Len(call_results) = Len(selected_options)

\* C26: no two candidates of the current message carry the same call_id, and
\* when an invocation has returned with every store call answered, each call
\* id it handed to its poll session is the call_id of exactly one candidate.
C26_CallIdIdentifiesOneCandidate ==
    /\ \A i, j \in 1..Len(CurrentList) :
           (i # j /\ Truthy(CurrentList[i].call_id)) =>
               CurrentList[i].call_id # CurrentList[j].call_id
    /\ (pc = "returned" /\ HasLogged("create_task") /\ NoStoreError) =>
           \A c \in Pending(sessions[Len(sessions)]) :
               Cardinality({i \in 1..Len(CurrentList) : CurrentList[i].call_id = c}) = 1

\* C28: when the campaign has returned, the endpoint answers 200 with one
\* entry per placement attempt, in order, carrying the attempt's name and
\* phone: status "loading" and the call's id for a placement that returned,
\* status "failed", a null call_id and an error for one that raised.  An
\* invocation in which a placement was attempted never ends in an error
\* response.
C28_RouteReportsEveryResult ==
    pc \in {"returned", "raised"} =>
        LET response == ExecutePhoneCallsRoute(pc = "raised", call_results)
            entries == response.selected_options
        IN /\ (pc = "returned" \/ PlaceLog # <<>>) => response.status_code = 200
           /\ pc = "raised" => response.status_code = 500
           /\ Len(entries) = Len(PlaceLog)
           /\ \A i \in 1..Len(entries) :
                  /\ entries[i].name = PlaceLog[i].name
                  /\ entries[i].phone = PlaceLog[i].phone
                  /\ PlaceLog[i].outcome = "returned" =>
                         /\ entries[i].status = "loading"
                         /\ Truthy(entries[i].call_id)
                         /\ entries[i].error = Absent
                         /\ \A j \in 1..Len(entries) :
                                j # i => entries[j].call_id # entries[i].call_id
                  /\ PlaceLog[i].outcome = "raised" =>
                         /\ entries[i].status = "failed"
                         /\ entries[i].call_id = 0
                         /\ entries[i].error # Absent

\* C28 witness: a campaign of two calls has returned, the first placement
\* raised and the second returned.
C28_Witness ==
    /\ pc = "returned"
    /\ Len(PlaceLog) = 2
    /\ PlaceLog[1].outcome = "raised"
    /\ PlaceLog[2].outcome = "returned"

\* The list an update helper computes from the messages it read.
ComputedList == ApplyHelper(read_messages, log[1], selected_options, <<>>).msgs[1].list

\* C25: when an update helper has written, the document it read holds
\* exactly the list computed from what the helper read, whatever another
\* writer wrote to the document before the write: a change made between the
\* read and the write survives only where the computed list happens to have
\* it.
C25_WriteReplacesWholeList ==
    (pc = "written" /\ log[1].outcome = "wrote" /\ edit.at # "written") =>
        /\ \E k \in 1..Len(messages) :
               /\ messages[k].id = read_messages[1].id
               /\ messages[k].list = ComputedList
        /\ edit.at = "read" =>
               \A i \in 1..Len(CurrentList) :
                   CurrentList[i].selected = read_messages[1].list[i].selected

\* C25 witness: the user changed a candidate's selected flag between the
\* helper's read and its write, the helper changed a status, and the stored
\* list has the old flag again.
C25_Witness ==
    /\ pc = "written"
    /\ log[1].outcome = "wrote"
    /\ edit.at = "read"
    /\ ComputedList # read_messages[1].list
    /\ \E i \in 1..Len(CurrentList) :
           /\ edit.list[i].selected # read_messages[1].list[i].selected
           /\ CurrentList[i].selected = read_messages[1].list[i].selected

\* C29: process_order on a request that carries a session_id, for a task
\* with a user message and with the store and the agent answering, returns a
\* response with the request's session_id, having cleared the memory once
\* and invoked the agent once.
C29_OrderKeepsSessionId ==
    (/\ last_call.op = "process_order"
     /\ last_call.req_session_id # Absent
     /\ last_call.last_user_message # ""
     /\ ~last_call.fault) =>
        /\ last_call.status_code = 200
        /\ last_call.response_session_id = last_call.req_session_id
        /\ last_call.clears = 1
        /\ last_call.invokes = 1

\* C30: a step in which a session id leaves the store is delete_session of
\* that id; get_agent(s) leaves s in the store, with the memory it had when
\* s was there and an empty one otherwise, returns that memory and changes no
\* other entry; clear_session and process_order remove nothing.
C30_NoEviction ==
    [][/\ \A s \in DOMAIN session_store :
              s \notin DOMAIN session_store' =>
                  last_call' = AgentCall("delete_session", s, <<>>)
       /\ last_call'.op = "get_agent" =>
              LET s == last_call'.session_id
              IN /\ s \in DOMAIN session_store'
                 /\ session_store'[s] =
                        IF s \in DOMAIN session_store THEN session_store[s] ELSE <<>>
                 /\ last_call'.memory = session_store'[s]
                 /\ \A t \in DOMAIN session_store' \ {s} :
                        t \in DOMAIN session_store /\ session_store'[t] = session_store[t]
       /\ last_call'.op \in {"clear_session", "process_order"} =>
              DOMAIN session_store \subseteq DOMAIN session_store'
      ]_vars

\* C30 witness: get_agent has just returned the non-empty memory of a
\* session made by process_order, next to two other sessions.
C30_Witness ==
    /\ last_call.op = "get_agent"
    /\ last_call.memory # <<>>
    /\ session_store[last_call.session_id] = last_call.memory
    /\ Cardinality(DOMAIN session_store) = 3

BatchIds(session) == {session.call_ids[k] : k \in 1..Len(session.call_ids)}

\* C33: every call id a poll session has marked completed is the call_id of
\* a candidate of the current message with status "completed" and the
\* recording_url and transcript the provider returned for it.
C33_CompletedCallIsStored ==
    \A s \in 1..Len(sessions) :
        \A c \in sessions[s].completed_calls :
            \E i \in 1..Len(CurrentList) :
                /\ CurrentList[i].call_id = c
                /\ CurrentList[i].status = "completed"
                /\ CurrentList[i].recording_url = c
                /\ CurrentList[i].transcript = c

\* C34: a session's batch never changes and its completed set only grows,
\* within the batch; a query answering both whose store write raised marks
\* nothing and writes nothing; the loop's turn for a call that is not marked
\* is a query of that call, and a query answering both whose write returns
\* marks it.
C34_FailedWriteRetried ==
    [][\A s \in 1..Len(sessions) :
           /\ sessions'[s].call_ids = sessions[s].call_ids
           /\ sessions[s].completed_calls \subseteq sessions'[s].completed_calls
           /\ sessions'[s].completed_calls \subseteq BatchIds(sessions[s])
           /\ (QueryStep(s) /\ polled'.outcome = "both" /\ ~polled'.saved) =>
                  /\ sessions'[s].completed_calls = sessions[s].completed_calls
                  /\ messages' = messages
           /\ (/\ sessions'[s] # sessions[s]
               /\ sessions[s].state = "running"
               /\ sessions[s].cursor <= Len(sessions[s].call_ids)
               /\ sessions[s].call_ids[sessions[s].cursor] \notin sessions[s].completed_calls) =>
                  /\ QueryStep(s)
                  /\ polled'.call_id = sessions[s].call_ids[sessions[s].cursor]
                  /\ (polled'.outcome = "both" /\ polled'.saved) =>
                         polled'.call_id \in sessions'[s].completed_calls]_vars

\* C34 witness: in a later iteration a call that is still not marked has
\* answered both again and the write has raised again.
C34_Witness ==
    /\ polled.outcome = "both"
    /\ ~polled.saved
    /\ sessions[polled.session].iteration >= 2
    /\ polled.call_id \notin sessions[polled.session].completed_calls

\* C36: a candidate that is not selected has, in every state, the status,
\* call_id, recording_url and transcript it had before the first campaign
\* (none: candidates start without call data and their selected flag is not
\* changed by the program).
C36_UnselectedUntouched ==
    \A i \in 1..Len(CurrentList) :
        CurrentList[i].selected # "True" =>
            /\ CurrentList[i].status = Absent
            /\ CurrentList[i].call_id = 0
            /\ CurrentList[i].recording_url = 0
            /\ CurrentList[i].transcript = 0

\* C37: a candidate that carries a recording_url and a transcript carries
\* those of its current call_id.
C37_ResultsOfCurrentCall ==
    \A i \in 1..Len(CurrentList) :
        (Truthy(CurrentList[i].recording_url) /\ Truthy(CurrentList[i].transcript)) =>
            /\ CurrentList[i].recording_url = CurrentList[i].call_id
            /\ CurrentList[i].transcript = CurrentList[i].call_id

\* C38: a step of a poll session leaves every candidate whose call_id is not
\* of the session's batch as it was, and a completion write changes only
\* candidates whose call_id is the polled call id.
C38_OtherCampaignUntouched ==
    [][\A s \in 1..Len(sessions) :
           sessions'[s] # sessions[s] =>
               /\ Len(CurrentList') = Len(CurrentList)
               /\ \A i \in 1..Len(CurrentList) :
                      /\ CurrentList[i].call_id \notin BatchIds(sessions[s]) =>
                             CurrentList'[i] = CurrentList[i]
                      /\ CurrentList'[i] # CurrentList[i] =>
                             CurrentList[i].call_id = polled'.call_id]_vars

\* C38 witness: the first campaign's session has just saved a completion
\* while a candidate carries a call_id of the second campaign's batch and is
\* still loading, without results.
C38_Witness ==
    /\ Len(sessions) = 2
    /\ polled.session = 1
    /\ polled.saved
    /\ \E i \in 1..Len(CurrentList) :
           /\ CurrentList[i].call_id \in BatchIds(sessions[2])
           /\ CurrentList[i].status = "loading"
           /\ CurrentList[i].recording_url = 0

\* C39: at most one poll session is inside an iteration at a time, none is
\* while execute_phone_calls_for_selected_options runs, and a session that
\* is not inside an iteration is at no call of its batch.
C39_AtomicBetweenYields ==
    /\ Cardinality({s \in 1..Len(sessions) : sessions[s].state = "running"}) <= 1
    /\ ExecuteRunning => ~PollRunning
    /\ \A s \in 1..Len(sessions) :
           sessions[s].state # "running" => sessions[s].cursor = 0
    /\ polled # NoPoll => sessions[polled.session].state = "running"

\* C39 witness: the second campaign has returned; its session is inside an
\* iteration, at its second call, while the first campaign's session sleeps
\* between two iterations.
C39_Witness ==
    /\ pc = "returned"
    /\ Len(sessions) = 2
    /\ sessions[2].state = "running"
    /\ sessions[2].cursor = 2
    /\ sessions[1].state = "sleeping"
    /\ sessions[1].iteration >= 1

Document(id) == SelectSeq(messages, LAMBDA m : m.id = id)

\* C35: the campaign's writes go to the document its selections were read
\* from, document 1, also when document 2 was appended meanwhile: no
\* candidate of document 2 ever gets a status or call data, and when every
\* placement returned and the store answered every call, the selected
\* candidates of document 1 carry a call_id after the post-placement write.
C35_WritesTargetSourceDocument ==
    /\ \A k \in 1..Len(Document(2)) :
           \A i \in 1..Len(Document(2)[k].list) :
               /\ Document(2)[k].list[i].status = Absent
               /\ Document(2)[k].list[i].call_id = 0
               /\ Document(2)[k].list[i].recording_url = 0
    /\ (/\ pc \in {"persisted", "returned"}
        /\ NoStoreError
        /\ call_results # <<>>
        /\ \A j \in 1..Len(call_results) : call_results[j].status = "success") =>
           \A i \in 1..Len(Document(1)[1].list) :
               Document(1)[1].list[i].selected = "True" =>
                   Truthy(Document(1)[1].list[i].call_id)

\* C31: whatever the LLM call does, the tool returns exactly ten entries,
\* each with the eight keys, the i-th with rank i.
C31_TenRankedEntries ==
    restaurants # <<>> =>
        /\ Len(restaurants) = TopN
        /\ \A i \in 1..Len(restaurants) :
               /\ restaurants[i].keys = required_fields
               /\ restaurants[i].rank = i

====
